---- MODULE Spec2Model ----
(***************************************************************************)
(* The per-connection relay between a client WebSocket and a Gemini Live   *)
(* session: backend-node/utils.js (handlers) and the server entry point    *)
(* that wires them (handleNewConnection).                                  *)
(*                                                                         *)
(* Node runs every handler to completion on one event loop, so each        *)
(* handler is one atomic action.  What the environment decides (which      *)
(* event comes next, whether a call into the AI session throws, whether    *)
(* ai.live.connect resolves or rejects) is a nondeterministic choice.      *)
(*                                                                         *)
(* Transcoding pipeline.  Each audio message creates one pipeline: an      *)
(* ffmpeg command with its subprocess, an input stream and a PCM output    *)
(* stream.  The command reports exactly one terminal event, 'end' or       *)
(* 'error'.  A subprocess that was sent SIGKILL reports it later, as a     *)
(* separate event-loop turn ('error', or 'end' when it had already exited  *)
(* when the signal was sent).  The handlers of a pipeline are never        *)
(* detached and close over (ws, currentSession, clientState), not over     *)
(* the pipeline, so they act on whatever clientState holds when they run.  *)
(* A destroyed stream emits no further 'data', 'error' or 'end', and the    *)
(* output stream delivers its chunks before the command's terminal event.  *)
(* Handlers that only log ('start', pcmStream 'end', onopen) change no     *)
(* state and are not actions.                                              *)
(***************************************************************************)
EXTENDS Integers, Sequences, FiniteSets, TLC

\* ---------------------------------------------------------------- bounds
MaxPipelines == 2
MaxBuffered == 1

\* ------------------------------------------------------ program constants
CloseCodeInternal == 1011
SocketOpenState == 1

VARIABLES
    ws,         \* ws[c]: the client socket: "none", "open", "closing", "closed"
    connect,    \* connect[c]: ai.live.connect: "none", "pending", "resolved", "rejected"
    handlers,   \* handlers[c]: ws.on('message'/'close'/'error') are installed
    hasState,   \* hasState[c]: clientStateMap has an entry for ws
    cs,         \* cs[c]: the clientState object (it outlives its map entry in closures)
    hasSess,    \* hasSess[c]: geminiSessionMap has an entry for ws
    ai,         \* ai[c]: the AI session: "none", "connecting", "open",
                \* "closing" (session.close() was called, callbacks may be in flight), "closed"
    closes,     \* closes[c]: number of session.close() calls
    pipes,      \* pipes[c]: the pipelines created so far, in creation order
    closeLog,   \* the ws.close(code, reason) calls made so far
    evt,        \* the handler that ran last and what it delivered to the client
    lim,        \* the limits of the run: its sockets, pipelines created per socket,
                \* AI audio fragments buffered, and whether heard is kept
    heard       \* heard[c]: the fragments the AI sent since the last turn-complete

\* The client page (the React component App) and the WAV header function are
\* checked in specifications of their own, SpecUi, SpecLink and SpecWav; the relay's
\* actions leave their variables alone and they leave the relay's.
VARIABLES
    messages,   \* the page's messages state, oldest first
    uiEvt,      \* the event the page handled last
    uiSteps,    \* the number of events the page handled
    turn,       \* the server events of the assistant turn under way, as they arrived
    sockets,    \* the WebSockets the page created, in creation order: their readyState
    socketRef,  \* socketRef.current: the index of a socket, 0 for null
    isConnected, \* the page's isConnected state
    linkEvt,    \* the toggle click or socket event handled last, and its socket
    wavIn,      \* the arguments of a createWavHeader call
    wavOut      \* what the calls made with these arguments returned, in order

relayVars == <<ws, connect, handlers, hasState, cs, hasSess, ai, closes, pipes, closeLog, evt, lim, heard>>

\* The sockets the server accepts.  Every map of the program is keyed by the
\* socket, so connections share no state.
Conns == lim.conns

listVars == <<messages, uiEvt, uiSteps, turn>>

linkVars == <<sockets, socketRef, isConnected, linkEvt>>

uiVars == <<listVars, linkVars>>

wavVars == <<wavIn, wavOut>>

vars == <<relayVars, uiVars, wavVars>>

\* ------------------------------------------------------------- data
NoPipe == 0

NewClientState ==
    [ audioBuffer |-> <<>>,
      mimeType |-> "",
      ffmpegInputStream |-> NoPipe,
      ffmpegProcess |-> NoPipe,
      pcmOutputStream |-> NoPipe,
      isSendingAudioToGemini |-> FALSE,
      firstGeminiResponseReceived |-> FALSE ]

\* A pipeline: the subprocess, the two PassThrough streams, and the error
\* events its handlers delivered to the client.
NewPipeline == [ proc |-> "running", inS |-> "live", outS |-> "live", errs |-> 0 ]

\* ws.readyState of the model's socket states (OPEN is 1).
ReadyState(w) ==
    CASE w = "open" -> SocketOpenState
      [] w = "closing" -> 2
      [] w = "closed" -> 3
      [] OTHER -> 0

\* ws.send(msg): delivered when the socket is open, dropped otherwise.
Delivered(c, msgs) == IF ws[c] = "open" THEN msgs ELSE <<>>

\* The messages the server sends to a client.
Msg(from, type, data, why) == [ from |-> from, type |-> type, data |-> data, why |-> why ]

\* A plausible slip: the error event copies the sender of the AI's messages.
ErrorMsgFromGemini(why) == Msg("gemini", "error", <<>>, why)

\* An error event of the backend; why is the text its data starts with.
ErrorMsg(why) == Msg("backend", "error", <<>>, why)

\* A call into the AI session: op is the method, arg what it carries (the
\* utterance, the empty end-of-turn content, a PCM chunk), ok is FALSE when
\* it threw.  Both sendClientContent calls of the program pass turnComplete true.
Call(op, arg, ok) == [ op |-> op, arg |-> arg, ok |-> ok ]

\* What a handler run leaves in evt: its kind, its socket, its pipeline (0 when
\* it has none), the messages delivered to the client and the session calls.
Ev(kind, c, p, msgs, calls) ==
    [ kind |-> kind, c |-> c, p |-> p, sent |-> Delivered(c, msgs), calls |-> calls ]

\* A plausible slip: the rejection reuses the reason of the runtime-error close.
CloseReasonCopied(site) ==
    CASE site = "connectFail" -> "Gemini API Error"
      [] site = "geminiError" -> "Gemini API Error"
      [] site = "noSession" -> "No active Gemini session"
      [] site = "noState" -> "No active client state"

\* ws.close(code, reason): starts the closing handshake of an open socket.
CloseReason(site) ==
    CASE site = "connectFail" -> "Backend connection error"
      [] site = "geminiError" -> "Gemini API Error"
      [] site = "noSession" -> "No active Gemini session"
      [] site = "noState" -> "No active client state"

\* Every ws.close call of the server passes the same code.
CloseCode(site) ==
    CASE site = "connectFail" -> CloseCodeInternal
      [] site = "geminiError" -> CloseCodeInternal
      [] site = "noSession" -> CloseCodeInternal
      [] site = "noState" -> CloseCodeInternal

CloseCall(c, site) == [ c |-> c, site |-> site, code |-> CloseCode(site), reason |-> CloseReason(site) ]

AfterWsClose(w) == IF w = "open" THEN "closing" ELSE w

\* ------------------------------------------------------ stopAudioProcessing
\* A plausible slip: the flag is left as it was.
StoppedStateKeepsFlag(s) ==
    [ s EXCEPT !.ffmpegProcess = NoPipe,
               !.ffmpegInputStream = NoPipe,
               !.pcmOutputStream = NoPipe ]

\* The clientState after stopAudioProcessing.
StoppedState(s) ==
    [ s EXCEPT !.ffmpegProcess = NoPipe,
               !.ffmpegInputStream = NoPipe,
               !.pcmOutputStream = NoPipe,
               !.isSendingAudioToGemini = FALSE ]

\* A plausible slip: the PCM output stream is not destroyed.
StoppedPipesKeepsOutput(s, pp) ==
    [ i \in DOMAIN pp |->
        [ pp[i] EXCEPT
            !.proc = IF i = s.ffmpegProcess /\ @ = "running" THEN "killed" ELSE @,
            !.inS = IF i = s.ffmpegInputStream /\ @ = "live" THEN "destroyed" ELSE @ ] ]

\* The pipelines after stopAudioProcessing(s): SIGKILL to the subprocess s
\* refers to (an exception for a finished one is swallowed), destroy() on the
\* two streams s refers to.
StoppedPipes(s, pp) ==
    [ i \in DOMAIN pp |->
        [ pp[i] EXCEPT
            !.proc = IF i = s.ffmpegProcess /\ @ = "running" THEN "killed" ELSE @,
            !.inS = IF i = s.ffmpegInputStream /\ @ = "live" THEN "destroyed" ELSE @,
            !.outS = IF i = s.pcmOutputStream /\ @ = "live" THEN "destroyed" ELSE @ ] ]

\* ------------------------------------------------------------- Init
\* useState([]): the page shows no message; no event was handled.
UiInit ==
    /\ messages = <<>>
    /\ uiEvt = "none"
    /\ uiSteps = 0
    /\ turn = [ frags |-> <<>>, textOnly |-> TRUE, base |-> 0, done |-> FALSE ]
    /\ sockets = <<>>
    /\ socketRef = 0
    /\ isConnected = FALSE
    /\ linkEvt = [ kind |-> "none", k |-> 0 ]

\* No createWavHeader call is under way.
WavIdle == wavIn = <<>> /\ wavOut = <<>>

\* No fragment was heard and no turn-complete either.
NothingHeard == [ audio |-> <<>>, any |-> FALSE, done |-> FALSE ]

\* Nothing is connected.  A run is limited to the sockets lim.conns, to
\* lim.pipes audio messages per socket and to lim.buf buffered fragments per
\* AI turn.
RelayStart(limits) ==
    /\ lim = limits
    /\ heard = [c \in Conns |-> NothingHeard]
    /\ ws = [c \in Conns |-> "none"]
    /\ connect = [c \in Conns |-> "none"]
    /\ handlers = [c \in Conns |-> FALSE]
    /\ hasState = [c \in Conns |-> FALSE]
    /\ cs = [c \in Conns |-> NewClientState]
    /\ hasSess = [c \in Conns |-> FALSE]
    /\ ai = [c \in Conns |-> "none"]
    /\ closes = [c \in Conns |-> 0]
    /\ pipes = [c \in Conns |-> <<>>]
    /\ closeLog = {}
    /\ evt = [ kind |-> "init", c |-> 0, p |-> 0, sent |-> <<>>, calls |-> <<>> ]

\* One socket, with the limits MaxPipelines and MaxBuffered.
RelayInit ==
    RelayStart([ pipes |-> MaxPipelines, buf |-> MaxBuffered, conns |-> {1}, hist |-> FALSE ])

Init == RelayInit /\ UiInit /\ WavIdle

\* ------------------------------------------------- handleNewConnection
\* A plausible slip: clientStateMap.set(ws, ...) is missing.
HandleNewConnectionWithoutState(c) ==
    /\ ws[c] = "none"
    /\ ws' = [ws EXCEPT ![c] = "open"]
    /\ connect' = [connect EXCEPT ![c] = "pending"]
    /\ ai' = [ai EXCEPT ![c] = "connecting"]
    /\ evt' = Ev("connection", c, 0, <<>>, <<>>)
    /\ UNCHANGED <<handlers, hasState, cs, hasSess, closes, pipes, closeLog, lim, heard, uiVars, wavVars>>

\* wss.on('connection'): up to the await of ai.live.connect.
HandleNewConnection(c) ==
    /\ ws[c] = "none"
    /\ ws' = [ws EXCEPT ![c] = "open"]
    /\ hasState' = [hasState EXCEPT ![c] = TRUE]
    /\ cs' = [cs EXCEPT ![c] = NewClientState]
    /\ connect' = [connect EXCEPT ![c] = "pending"]
    /\ ai' = [ai EXCEPT ![c] = "connecting"]
    /\ evt' = Ev("connection", c, 0, <<>>, <<>>)
    /\ UNCHANGED <<handlers, hasSess, closes, pipes, closeLog, lim, heard, uiVars, wavVars>>

\* ai.live.connect resolved: the try block after the await.
ConnectResolved(c) ==
    /\ connect[c] = "pending"
    /\ ai[c] = "connecting"
    /\ connect' = [connect EXCEPT ![c] = "resolved"]
    /\ ai' = [ai EXCEPT ![c] = "open"]
    /\ hasSess' = [hasSess EXCEPT ![c] = TRUE]
    /\ handlers' = [handlers EXCEPT ![c] = TRUE]
    /\ evt' = Ev("connected", c, 0, <<>>, <<>>)
    /\ UNCHANGED <<ws, hasState, cs, closes, pipes, closeLog, lim, heard, uiVars, wavVars>>

\* A plausible slip: the catch block forgets clientStateMap.delete(ws).
RejectedStateEntryKept(c) == hasState[c]

\* clientStateMap.delete(ws) of the catch block: the entry is gone.
RejectedStateEntry(c) == FALSE

\* ai.live.connect rejected: the catch block.
ConnectRejected(c) ==
    /\ connect[c] = "pending"
    /\ connect' = [connect EXCEPT ![c] = "rejected"]
    /\ ai' = [ai EXCEPT ![c] = "closed"]
    /\ hasState' = [hasState EXCEPT ![c] = RejectedStateEntry(c)]
    /\ ws' = [ws EXCEPT ![c] = AfterWsClose(@)]
    /\ closeLog' = closeLog \cup {CloseCall(c, "connectFail")}
    /\ evt' = Ev("connectFailed", c, 0, <<>>, <<>>)
    /\ UNCHANGED <<handlers, cs, hasSess, closes, pipes, lim, heard, uiVars, wavVars>>

\* ------------------------------------------------------- cleanupClient
\* cleanupClient(ws, geminiSessionMap, clientStateMap), as the values it leaves.
CleanupPipes(c) == IF hasState[c] THEN StoppedPipes(cs[c], pipes[c]) ELSE pipes[c]

CleanupState(c) == IF hasState[c] THEN StoppedState(cs[c]) ELSE cs[c]

\* A plausible slip: geminiSessionMap.delete(ws) is forgotten.
CleanupSessionEntryKept(c) == hasSess[c]

\* geminiSessionMap.delete(ws): the entry is gone (it is deleted when present).
CleanupSessionEntry(c) == FALSE

CleanupClient(c) ==
    /\ pipes' = [pipes EXCEPT ![c] = CleanupPipes(c)]
    /\ cs' = [cs EXCEPT ![c] = CleanupState(c)]
    /\ closes' = [closes EXCEPT ![c] = IF hasSess[c] THEN @ + 1 ELSE @]
    /\ ai' = [ai EXCEPT ![c] = IF hasSess[c] /\ @ = "open" THEN "closing" ELSE @]
    /\ hasSess' = [hasSess EXCEPT ![c] = CleanupSessionEntry(c)]
    /\ hasState' = [hasState EXCEPT ![c] = FALSE]

\* The socket's 'close' event: handleWebSocketClose when it is installed; an
\* event without a listener is lost.
HandleWebSocketClose(c) ==
    /\ ws[c] \in {"open", "closing"}
    /\ ws' = [ws EXCEPT ![c] = "closed"]
    /\ IF handlers[c]
         THEN CleanupClient(c)
         ELSE UNCHANGED <<pipes, cs, closes, ai, hasSess, hasState>>
    /\ evt' = Ev(IF handlers[c] THEN "wsClose" ELSE "wsCloseLost", c, 0, <<>>,
                 IF handlers[c] /\ hasSess[c] THEN <<Call("close", "none", TRUE)>> ELSE <<>>)
    /\ UNCHANGED <<connect, handlers, closeLog, lim, heard, uiVars, wavVars>>

\* The socket's 'error' event: handleWebSocketError when it is installed.  The
\* socket is closing from then on and its 'close' event follows.
HandleWebSocketError(c) ==
    /\ ws[c] = "open"
    /\ ws' = [ws EXCEPT ![c] = "closing"]
    /\ IF handlers[c]
         THEN CleanupClient(c)
         ELSE UNCHANGED <<pipes, cs, closes, ai, hasSess, hasState>>
    /\ evt' = Ev(IF handlers[c] THEN "wsError" ELSE "wsErrorLost", c, 0, <<>>,
                 IF handlers[c] /\ hasSess[c] THEN <<Call("close", "none", TRUE)>> ELSE <<>>)
    /\ UNCHANGED <<connect, handlers, closeLog, lim, heard, uiVars, wavVars>>

\* ---------------------------------------------------- client messages
\* A plausible slip: the utterance is sent without stopping the audio processing.
HandleTextMessageNoStop(c, throws) ==
    /\ evt' = Ev("text", c, 0,
                 IF throws THEN <<ErrorMsg("Backend error processing message")>> ELSE <<>>,
                 <<Call("sendClientContent", "utterance", ~throws)>>)
    /\ UNCHANGED <<ws, closeLog, pipes, cs>>

\* handleTextMessage: stopAudioProcessing, then sendClientContent with
\* turnComplete true.  An exception of the call is caught by the caller.
HandleTextMessage(c, throws) ==
    /\ pipes' = [pipes EXCEPT ![c] = StoppedPipes(cs[c], pipes[c])]
    /\ cs' = [cs EXCEPT ![c] = StoppedState(cs[c])]
    /\ evt' = Ev("text", c, 0,
                 IF throws THEN <<ErrorMsg("Backend error processing message")>> ELSE <<>>,
                 <<Call("sendClientContent", "utterance", ~throws)>>)
    /\ UNCHANGED <<ws, closeLog>>

\* A plausible slip: the new pipeline is created without stopping the old one.
AudioStartPipesNoStop(s, pp) == Append(pp, NewPipeline)

\* The pipelines after handleAudioMessage: the existing pipeline is stopped,
\* then the new one is created.
AudioStartPipes(s, pp) == Append(StoppedPipes(s, pp), NewPipeline)

\* A plausible slip: the output stream is not stored in the clientState.
AudioStartStateNoOutputRef(s, id) ==
    [ StoppedState(s) EXCEPT !.firstGeminiResponseReceived = FALSE,
                             !.audioBuffer = <<>>,
                             !.ffmpegInputStream = id,
                             !.ffmpegProcess = id ]

\* The clientState after handleAudioMessage; id names the new pipeline.
AudioStartState(s, id) ==
    [ StoppedState(s) EXCEPT !.firstGeminiResponseReceived = FALSE,
                             !.audioBuffer = <<>>,
                             !.ffmpegInputStream = id,
                             !.pcmOutputStream = id,
                             !.ffmpegProcess = id ]

HandleAudioMessage(c) ==
    /\ pipes' = [pipes EXCEPT ![c] = AudioStartPipes(cs[c], pipes[c])]
    /\ cs' = [cs EXCEPT ![c] = AudioStartState(cs[c], Len(pipes[c]) + 1)]
    /\ evt' = Ev("audio", c, Len(pipes[c]) + 1, <<>>, <<>>)
    /\ UNCHANGED <<ws, closeLog>>

\* A plausible slip: the catch block also stops the audio processing.
HandleMalformedMessageStops(c) ==
    /\ evt' = Ev("malformed", c, 0, <<ErrorMsg("Backend error processing message")>>, <<>>)
    /\ pipes' = [pipes EXCEPT ![c] = StoppedPipes(cs[c], pipes[c])]
    /\ cs' = [cs EXCEPT ![c] = StoppedState(cs[c])]
    /\ UNCHANGED <<ws, closeLog>>

\* JSON.parse throws: the catch block sends one error event, nothing else.
HandleMalformedMessage(c) ==
    /\ evt' = Ev("malformed", c, 0, <<ErrorMsg("Backend error processing message")>>, <<>>)
    /\ UNCHANGED <<ws, closeLog, pipes, cs>>

\* A message of unknown type, or an audio message without audioData: a warning.
HandleUnknownMessage(c) ==
    /\ evt' = Ev("unknown", c, 0, <<>>, <<>>)
    /\ UNCHANGED <<ws, closeLog, pipes, cs>>

\* A plausible slip: the return after ws.close is missing and the handler goes
\* on to use the session it did not find.
HandleMessageWithoutEntryFallsThrough(c, site) ==
    /\ ws' = [ws EXCEPT ![c] = AfterWsClose(@)]
    /\ closeLog' = closeLog \cup {CloseCall(c, site)}
    /\ evt' = Ev(site, c, 0, <<>>, <<Call("sendClientContent", "utterance", FALSE)>>)
    /\ UNCHANGED <<pipes, cs>>

\* The lookups that end handleWebSocketMessage early with ws.close(1011, ...).
HandleMessageWithoutEntry(c, site) ==
    /\ ws' = [ws EXCEPT ![c] = AfterWsClose(@)]
    /\ closeLog' = closeLog \cup {CloseCall(c, site)}
    /\ evt' = Ev(site, c, 0, <<>>, <<>>)
    /\ UNCHANGED <<pipes, cs>>

ClientMessageKinds == {"text", "textThrows", "audio", "malformed", "unknown"}

\* The socket's 'message' event.  Frames still arrive while the closing
\* handshake of a server-side ws.close() is under way.
HandleWebSocketMessage(c, m) ==
    /\ handlers[c]
    /\ ws[c] \in {"open", "closing"}
    /\ m = "audio" => Len(pipes[c]) < lim.pipes
    /\ CASE ~hasSess[c] -> HandleMessageWithoutEntry(c, "noSession")
         [] hasSess[c] /\ ~hasState[c] -> HandleMessageWithoutEntry(c, "noState")
         [] OTHER ->
              CASE m = "malformed" -> HandleMalformedMessage(c)
                [] m = "text" -> HandleTextMessage(c, FALSE)
                [] m = "textThrows" -> HandleTextMessage(c, TRUE)
                [] m = "audio" -> HandleAudioMessage(c)
                [] OTHER -> HandleUnknownMessage(c)
    /\ UNCHANGED <<connect, handlers, hasState, hasSess, ai, closes, lim, heard, uiVars, wavVars>>

\* A 'message' event of the socket before ws.on('message') was called: the
\* emitter has no listener, the frame is read and dropped, nothing is queued.
MessageWithoutListener(c) ==
    /\ ~handlers[c]
    /\ ws[c] \in {"open", "closing"}
    /\ evt' = Ev("messageLost", c, 0, <<>>, <<>>)
    /\ UNCHANGED <<ws, connect, handlers, hasState, cs, hasSess, ai, closes, pipes, closeLog, lim, heard, uiVars, wavVars>>

\* ------------------------------------------------------ pipeline events
\* errs of pipeline p raised by the error events in msgs that reach the client.
WithErrors(c, pp, p, msgs) ==
    [ pp EXCEPT ![p].errs = @ + Len(Delivered(c, msgs)) ]

\* A plausible slip: a chunk that cannot be forwarded is only dropped, the
\* pipeline is left running.
PcmDataDropsWithoutStop(c, p, throws) ==
    /\ p \in DOMAIN pipes[c]
    /\ pipes[c][p].outS = "live"
    /\ IF ReadyState(ws[c]) = SocketOpenState
         THEN IF throws
                THEN /\ pipes' = [pipes EXCEPT ![c] =
                           WithErrors(c, StoppedPipes(cs[c], pipes[c]), p,
                                      <<ErrorMsg("Backend error sending audio chunk to Gemini")>>)]
                     /\ cs' = [cs EXCEPT ![c] = StoppedState(cs[c])]
                     /\ evt' = Ev("chunkFailed", c, p,
                                  <<ErrorMsg("Backend error sending audio chunk to Gemini")>>,
                                  <<Call("sendRealtimeInput", "chunk", FALSE)>>)
                ELSE /\ cs' = [cs EXCEPT ![c].isSendingAudioToGemini = TRUE]
                     /\ evt' = Ev("chunk", c, p, <<>>, <<Call("sendRealtimeInput", "chunk", TRUE)>>)
                     /\ UNCHANGED pipes
         ELSE /\ evt' = Ev("chunkDropped", c, p, <<>>, <<>>)
              /\ UNCHANGED <<pipes, cs>>
    /\ UNCHANGED <<ws, connect, handlers, hasState, hasSess, ai, closes, closeLog, lim, heard, uiVars, wavVars>>


\* pcmStream 'data': sendAudioChunkToGemini.  A stream emits 'data' while it
\* is live, whatever became of the subprocess.  The chunk is forwarded when the
\* socket is open; a throwing sendRealtimeInput stops the pipeline and sends
\* an error; a socket that is not open stops the pipeline silently.
PcmData(c, p, throws) ==
    /\ p \in DOMAIN pipes[c]
    /\ pipes[c][p].outS = "live"
    /\ IF ReadyState(ws[c]) = SocketOpenState
         THEN IF throws
                THEN /\ pipes' = [pipes EXCEPT ![c] =
                           WithErrors(c, StoppedPipes(cs[c], pipes[c]), p,
                                      <<ErrorMsg("Backend error sending audio chunk to Gemini")>>)]
                     /\ cs' = [cs EXCEPT ![c] = StoppedState(cs[c])]
                     /\ evt' = Ev("chunkFailed", c, p,
                                  <<ErrorMsg("Backend error sending audio chunk to Gemini")>>,
                                  <<Call("sendRealtimeInput", "chunk", FALSE)>>)
                ELSE /\ cs' = [cs EXCEPT ![c].isSendingAudioToGemini = TRUE]
                     /\ evt' = Ev("chunk", c, p, <<>>, <<Call("sendRealtimeInput", "chunk", TRUE)>>)
                     /\ UNCHANGED pipes
         ELSE /\ pipes' = [pipes EXCEPT ![c] = StoppedPipes(cs[c], pipes[c])]
              /\ cs' = [cs EXCEPT ![c] = StoppedState(cs[c])]
              /\ evt' = Ev("chunkDropped", c, p, <<>>, <<>>)
    /\ UNCHANGED <<ws, connect, handlers, hasState, hasSess, ai, closes, closeLog, lim, heard, uiVars, wavVars>>

\* pcmStream 'error': stopAudioProcessing and one error event.
PcmError(c, p) ==
    /\ p \in DOMAIN pipes[c]
    /\ pipes[c][p].outS = "live"
    /\ pipes[c][p].proc = "running"
    /\ pipes' = [pipes EXCEPT ![c] =
          WithErrors(c, StoppedPipes(cs[c], pipes[c]), p, <<ErrorMsg("Audio output stream error")>>)]
    /\ cs' = [cs EXCEPT ![c] = StoppedState(cs[c])]
    /\ evt' = Ev("pcmError", c, p, <<ErrorMsg("Audio output stream error")>>, <<>>)
    /\ UNCHANGED <<ws, connect, handlers, hasState, hasSess, ai, closes, closeLog, lim, heard, uiVars, wavVars>>

\* The command's 'error' handler: stopAudioProcessing on the clientState and
\* one error event.  It is the terminal event of pipeline p.
FFmpegErrorPipes(c, p) ==
    [ WithErrors(c, StoppedPipes(cs[c], pipes[c]), p, <<ErrorMsg("Audio conversion failed")>>)
        EXCEPT ![p].proc = "errored" ]

FFmpegError(c, p) ==
    /\ p \in DOMAIN pipes[c]
    /\ pipes[c][p].proc \in {"running", "killed"}
    /\ pipes' = [pipes EXCEPT ![c] = FFmpegErrorPipes(c, p)]
    /\ cs' = [cs EXCEPT ![c] = StoppedState(cs[c])]
    /\ evt' = Ev("ffmpegError", c, p, <<ErrorMsg("Audio conversion failed")>>, <<>>)
    /\ UNCHANGED <<ws, connect, handlers, hasState, hasSess, ai, closes, closeLog, lim, heard, uiVars, wavVars>>

\* The pipelines after the subprocess of p exited by itself: its streams,
\* unless destroyed before, have ended.
FFmpegEndPipes(pp, p) ==
    [ pp EXCEPT ![p].proc = "ended",
                ![p].inS = IF @ = "live" THEN "ended" ELSE @,
                ![p].outS = IF @ = "live" THEN "ended" ELSE @ ]

\* The command's 'end' handler: signalAudioEndToGemini.  It is the terminal
\* event of pipeline p; the clientState keeps its references.
FFmpegEnd(c, p, throws) ==
    /\ p \in DOMAIN pipes[c]
    /\ pipes[c][p].proc \in {"running", "killed"}
    /\ pipes' = [pipes EXCEPT ![c] = FFmpegEndPipes(pipes[c], p)]
    /\ cs' = [cs EXCEPT ![c].isSendingAudioToGemini = FALSE]
    /\ evt' = Ev("ffmpegEnd", c, p,
                 IF throws THEN <<ErrorMsg("Backend error signaling end of audio turn")>> ELSE <<>>,
                 <<Call("sendClientContent", "empty", ~throws)>>)
    /\ UNCHANGED <<ws, connect, handlers, hasState, hasSess, ai, closes, closeLog, lim, heard, uiVars, wavVars>>

\* The pipelines a run can create.
Pipelines == 1..lim.pipes

\* --------------------------------------------------- AI session callbacks
\* The parts of a modelTurn: a text part, an audio part of one of two mime
\* types carrying one fragment, an audio part without data, inline data that
\* is not audio.
PartKinds == {"text", "audioA", "audioB", "audioNoData", "image"}

IsAudioData(part) == part \in {"audioA", "audioB"}

Fragment(part) == IF part = "audioA" THEN 1 ELSE 2

MimeOf(part) == IF part = "audioA" THEN "audio/pcm;rate=24000" ELSE "audio/pcm;rate=16000"

\* liveServerMessage: serverContent present or not, its parts, turnComplete.
\* A message without serverContent (setupComplete, toolCall) has neither.
GeminiMessages ==
    { [ serverContent |-> TRUE, parts |-> ps, turnComplete |-> tc ] :
        tc \in BOOLEAN, ps \in {<<>>} \cup { <<k>> : k \in PartKinds } }
    \cup { [ serverContent |-> FALSE, parts |-> <<>>, turnComplete |-> FALSE ] }

\* processGeminiAudioPart, folded over the parts in order.
RECURSIVE BufferAfterParts(_, _)
BufferAfterParts(s, ps) ==
    IF ps = <<>> THEN s
    ELSE BufferAfterParts(
            IF IsAudioData(Head(ps))
              THEN [ s EXCEPT !.audioBuffer = Append(@, Fragment(Head(ps))),
                              !.mimeType = MimeOf(Head(ps)) ]
              ELSE s,
            Tail(ps))

\* processGeminiTextPart, over the parts in order: one text event per text part.
RECURSIVE TextsOfParts(_)
TextsOfParts(ps) ==
    IF ps = <<>> THEN <<>>
    ELSE (IF Head(ps) = "text" THEN <<Msg("gemini", "text", <<>>, "")>> ELSE <<>>)
         \o TextsOfParts(Tail(ps))

\* A plausible slip: the turnComplete signal is sent inside the try block, so
\* a failure of the audio skips it.
TurnCompleteMsgsInTry(s, wavFails) ==
    IF Len(s.audioBuffer) > 0
      THEN IF wavFails
             THEN <<ErrorMsg("Backend error processing Gemini audio")>>
             ELSE <<Msg("gemini", "audio", s.audioBuffer, "audio/wav"),
                    Msg("gemini", "turnComplete", <<>>, "")>>
      ELSE <<Msg("gemini", "turnComplete", <<>>, "")>>

\* handleGeminiTurnComplete: the messages it sends for clientState s.
TurnCompleteMsgs(s, wavFails) ==
    (IF Len(s.audioBuffer) > 0
       THEN IF wavFails
              THEN <<ErrorMsg("Backend error processing Gemini audio")>>
              ELSE <<Msg("gemini", "audio", s.audioBuffer, "audio/wav")>>
       ELSE <<>>)
    \o <<Msg("gemini", "turnComplete", <<>>, "")>>

\* handleGeminiTurnComplete: the clientState it leaves.
TurnCompleteState(s, wavFails) ==
    IF Len(s.audioBuffer) > 0 /\ ~wavFails
      THEN [ s EXCEPT !.firstGeminiResponseReceived = FALSE, !.audioBuffer = <<>>, !.mimeType = "" ]
      ELSE [ s EXCEPT !.firstGeminiResponseReceived = FALSE ]

AudioParts(ps) == Len(SelectSeq(ps, IsAudioData))

\* The fragments of the audio parts with data, in the order of the parts.
RECURSIVE FragmentsOfParts(_)
FragmentsOfParts(ps) ==
    IF ps = <<>> THEN <<>>
    ELSE (IF IsAudioData(Head(ps)) THEN <<Fragment(Head(ps))>> ELSE <<>>)
         \o FragmentsOfParts(Tail(ps))

\* What was heard of the AI's turn after message m: a message after a
\* turn-complete starts the next turn.
HeardAfter(h, m) ==
    LET now == IF h.done THEN NothingHeard ELSE h
        parts == IF m.serverContent THEN m.parts ELSE <<>>
    IN  [ audio |-> now.audio \o FragmentsOfParts(parts),
          any |-> now.any \/ (\E i \in DOMAIN parts : parts[i] = "text" \/ IsAudioData(parts[i])),
          done |-> m.serverContent /\ m.turnComplete ]

\* The session's onmessage callback.
HandleGeminiMessage(c, m, wavFails) ==
    /\ ai[c] \in {"open", "closing"}
    /\ Len(cs[c].audioBuffer) + AudioParts(m.parts) <= lim.buf
    /\ wavFails => (m.serverContent /\ m.turnComplete
                    /\ Len(cs[c].audioBuffer) + AudioParts(m.parts) > 0)
    /\ heard' = [heard EXCEPT ![c] = IF lim.hist /\ hasState[c] THEN HeardAfter(@, m) ELSE @]
    /\ IF ~hasState[c]
         THEN /\ evt' = Ev("geminiNoState", c, 0, <<>>, <<>>)
              /\ UNCHANGED cs
         ELSE LET first == [ cs[c] EXCEPT !.firstGeminiResponseReceived = TRUE ]
                  parts == IF m.serverContent THEN m.parts ELSE <<>>
                  buffered == BufferAfterParts(first, parts)
                  tc == m.serverContent /\ m.turnComplete
              IN  /\ cs' = [cs EXCEPT ![c] =
                               IF tc THEN TurnCompleteState(buffered, wavFails) ELSE buffered]
                  /\ evt' = Ev(IF tc THEN "geminiTurnComplete" ELSE "geminiMessage", c, 0,
                               TextsOfParts(parts)
                               \o (IF tc THEN TurnCompleteMsgs(buffered, wavFails) ELSE <<>>),
                               <<>>)
    /\ UNCHANGED <<ws, connect, handlers, hasState, hasSess, ai, closes, pipes, closeLog, lim, uiVars, wavVars>>

\* A plausible slip: the error handler connects a new session for the socket.
HandleGeminiErrorReconnects(c) ==
    /\ ai[c] \in {"connecting", "open"}
    /\ ai' = [ai EXCEPT ![c] = "connecting"]
    /\ connect' = [connect EXCEPT ![c] = "pending"]
    /\ ws' = [ws EXCEPT ![c] = AfterWsClose(@)]
    /\ closeLog' = closeLog \cup {CloseCall(c, "geminiError")}
    /\ evt' = Ev("geminiError", c, 0, <<>>, <<>>)
    /\ UNCHANGED <<handlers, hasState, cs, hasSess, closes, pipes, lim, heard, uiVars, wavVars>>

\* A plausible slip: the callback closes every socket the server holds.
HandleGeminiErrorClosesAll(c) ==
    /\ ai[c] \in {"connecting", "open"}
    /\ ai' = [ai EXCEPT ![c] = "closed"]
    /\ ws' = [d \in Conns |-> AfterWsClose(ws[d])]
    /\ closeLog' = closeLog \cup {CloseCall(c, "geminiError")}
    /\ evt' = Ev("geminiError", c, 0, <<>>, <<>>)
    /\ UNCHANGED <<connect, handlers, hasState, cs, hasSess, closes, pipes, lim, heard, uiVars, wavVars>>

\* The session's onerror callback: ws.close(1011, 'Gemini API Error').  The
\* session's transport is over after an error.
HandleGeminiError(c) ==
    /\ ai[c] \in {"connecting", "open"}
    /\ ai' = [ai EXCEPT ![c] = "closed"]
    /\ ws' = [ws EXCEPT ![c] = AfterWsClose(@)]
    /\ closeLog' = closeLog \cup {CloseCall(c, "geminiError")}
    /\ evt' = Ev("geminiError", c, 0, <<>>, <<>>)
    /\ UNCHANGED <<connect, handlers, hasState, cs, hasSess, closes, pipes, lim, heard, uiVars, wavVars>>

\* The session's onclose callback, for a close the AI service starts: logged.
\* (The onclose that answers session.close() is logged too and changes nothing.)
HandleGeminiClose(c) ==
    /\ ai[c] = "open"
    /\ ai' = [ai EXCEPT ![c] = "closed"]
    /\ evt' = Ev("geminiClose", c, 0, <<>>, <<>>)
    /\ UNCHANGED <<ws, connect, handlers, hasState, cs, hasSess, closes, pipes, closeLog, lim, heard, uiVars, wavVars>>

Next ==
    \E c \in Conns :
        \/ HandleNewConnection(c)
        \/ ConnectResolved(c)
        \/ ConnectRejected(c)
        \/ HandleWebSocketClose(c)
        \/ HandleWebSocketError(c)
        \/ \E m \in ClientMessageKinds : HandleWebSocketMessage(c, m)
        \/ MessageWithoutListener(c)
        \/ \E p \in Pipelines, throws \in BOOLEAN : PcmData(c, p, throws)
        \/ \E p \in Pipelines : PcmError(c, p)
        \/ \E p \in Pipelines : FFmpegError(c, p)
        \/ \E p \in Pipelines, throws \in BOOLEAN : FFmpegEnd(c, p, throws)
        \/ \E m \in GeminiMessages, wavFails \in BOOLEAN : HandleGeminiMessage(c, m, wavFails)
        \/ HandleGeminiError(c)
        \/ HandleGeminiClose(c)

Spec == Init /\ [][Next]_vars

\* Two sockets at once, each limited to one audio message and to AI turns
\* without audio fragments.
PairLimits == [ pipes |-> 1, buf |-> 0, conns |-> {1, 2}, hist |-> FALSE ]

InitPair == RelayStart(PairLimits) /\ UiInit /\ WavIdle

SpecPair == InitPair /\ [][Next]_vars

\* One socket whose AI turns have up to two audio fragments, with the record
\* of what the AI sent in the turn.
TurnLimits == [ pipes |-> 1, buf |-> 2, conns |-> {1}, hist |-> TRUE ]

InitTurn == RelayStart(TurnLimits) /\ UiInit /\ WavIdle

SpecTurn == InitTurn /\ [][Next]_vars

\* ========================================================= the client page
\* socketRef.current.onmessage of App: each event is one setMessages update.
\* Text is a sequence of the fragments it was built from, so that appending
\* keeps their order; array indices start at 1 and "not found" is 0.
MaxUiEvents == 5

Fragments == {"Hel", "lo"}

IsBot(msg) == msg.sender = "bot"

IsBotText(msg) == msg.sender = "bot" /\ msg.type = "text"

\* Array.prototype.findLastIndex, for the set of the indices that pass the test.
FindLastIndex(found) ==
    IF found = {} THEN 0 ELSE CHOOSE i \in found : \A j \in found : j <= i

lastBotMessageIndex(ms) == FindLastIndex({ i \in DOMAIN ms : IsBot(ms[i]) })

lastBotTextMessageIndex(ms) == FindLastIndex({ i \in DOMAIN ms : IsBotText(ms[i]) })

Entry(sender, type, content, turnComplete, isError) ==
    [ sender |-> sender, type |-> type, content |-> content,
      turnComplete |-> turnComplete, isError |-> isError ]

\* The last message of the assistant is marked complete when it is not yet.
CloseLastBot(ms) ==
    LET i == lastBotMessageIndex(ms)
    IN  IF i # 0 /\ ~ms[i].turnComplete THEN [ ms EXCEPT ![i].turnComplete = TRUE ] ELSE ms

\* A plausible slip: every fragment opens a message of its own.
OnGeminiTextAlwaysNew(ms, f) ==
    Append(CloseLastBot(ms), Entry("bot", "text", <<f>>, FALSE, FALSE))

\* data.type === 'text'.
OnGeminiText(ms, f) ==
    LET t == lastBotTextMessageIndex(ms)
    IN  IF t # 0 /\ ~ms[t].turnComplete
          THEN [ ms EXCEPT ![t].content = @ \o <<f>> ]
          ELSE Append(CloseLastBot(ms), Entry("bot", "text", <<f>>, FALSE, FALSE))

\* data.type === 'audio' with data.data.audio and data.data.mimeType; decodes
\* is FALSE when base64ToBlob returns null.
OnGeminiAudio(ms, decodes) ==
    IF decodes
      THEN Append(CloseLastBot(ms), Entry("bot", "audio", <<"blob">>, TRUE, FALSE))
      ELSE ms

\* data.type === 'turnComplete'.
OnGeminiTurnComplete(ms) == CloseLastBot(ms)

\* data.from === 'backend' && data.type === 'error'.
OnBackendError(ms) == Append(ms, Entry("bot", "text", <<"Erro do Backend">>, TRUE, TRUE))

\* JSON.parse threw: the catch block.
OnUnparsable(ms) == Append(ms, Entry("bot", "text", <<"Erro ao processar mensagem">>, TRUE, TRUE))

UiEventKinds == {"text", "audio", "audioBad", "turnComplete", "error", "unparsable"}

\* The record of the assistant turn after a server event: a turn starts with
\* the first event after a turnComplete and ends with the next turnComplete.
TurnAfter(kind, f) ==
    LET now == IF turn.done
                 THEN [ frags |-> <<>>, textOnly |-> TRUE,
                        base |-> Len(SelectSeq(messages, IsBot)), done |-> FALSE ]
                 ELSE turn
    IN  CASE kind = "text" -> [ now EXCEPT !.frags = Append(@, f) ]
          [] kind = "turnComplete" -> [ now EXCEPT !.done = TRUE ]
          [] OTHER -> [ now EXCEPT !.textOnly = FALSE ]

\* onmessage for one event of the server.
OnMessage(kind, f) ==
    /\ uiSteps < MaxUiEvents
    /\ messages' =
          CASE kind = "text" -> OnGeminiText(messages, f)
            [] kind = "audio" -> OnGeminiAudio(messages, TRUE)
            [] kind = "audioBad" -> OnGeminiAudio(messages, FALSE)
            [] kind = "turnComplete" -> OnGeminiTurnComplete(messages)
            [] kind = "error" -> OnBackendError(messages)
            [] kind = "unparsable" -> OnUnparsable(messages)
    /\ uiEvt' = kind
    /\ uiSteps' = uiSteps + 1
    /\ turn' = TurnAfter(kind, f)
    /\ UNCHANGED <<linkVars, relayVars, wavVars>>

\* sendMessage and the recorder's onstop: the user's own entry, text or audio.
SendEntry(type) ==
    /\ uiSteps < MaxUiEvents
    /\ messages' = Append(messages, Entry("user", type, <<"user">>, TRUE, FALSE))
    /\ uiEvt' = "user"
    /\ uiSteps' = uiSteps + 1
    /\ UNCHANGED <<turn, linkVars, relayVars, wavVars>>

NextUi ==
    \/ \E kind \in UiEventKinds :
          \E f \in (IF kind = "text" THEN Fragments ELSE {""}) : OnMessage(kind, f)
    \/ \E type \in {"text", "audio"} : SendEntry(type)

SpecUi == Init /\ [][NextUi]_vars

\* -------------------------------------------- the page's connection toggle
\* The sockets the page creates in a run.
MaxSockets == 4

\* connectWebSocket: nothing when socketRef holds a socket that is not
\* CLOSED; otherwise a new WebSocket is created and stored in socketRef.
ConnectWebSocket ==
    IF socketRef # 0 /\ sockets[socketRef] # "closed"
      THEN UNCHANGED <<sockets, socketRef, isConnected>>
      ELSE /\ Len(sockets) < MaxSockets
           /\ sockets' = Append(sockets, "connecting")
           /\ socketRef' = Len(sockets) + 1
           /\ UNCHANGED isConnected

\* disconnectWebSocket: close(1000) on an open socket, setIsConnected(false)
\* otherwise; socketRef is nulled.
DisconnectWebSocket ==
    /\ IF socketRef # 0 /\ sockets[socketRef] = "open"
         THEN /\ sockets' = [sockets EXCEPT ![socketRef] = "closing"]
              /\ UNCHANGED isConnected
         ELSE /\ isConnected' = FALSE
              /\ UNCHANGED sockets
    /\ socketRef' = 0

\* handleToggleConnection: a click on the connection switch.
HandleToggleConnection ==
    /\ IF isConnected THEN DisconnectWebSocket ELSE ConnectWebSocket
    /\ linkEvt' = [ kind |-> IF isConnected THEN "disconnect" ELSE "connect", k |-> socketRef ]
    /\ UNCHANGED <<listVars, relayVars, wavVars>>

\* The 'open' event of socket k: its onopen handler.
OnOpen(k) ==
    /\ sockets[k] = "connecting"
    /\ sockets' = [sockets EXCEPT ![k] = "open"]
    /\ isConnected' = TRUE
    /\ linkEvt' = [ kind |-> "open", k |-> k ]
    /\ UNCHANGED <<socketRef, listVars, relayVars, wavVars>>

\* The 'close' event of socket k (the server or the network closed it, or the
\* closing handshake of close(1000) ended): its onclose handler.
OnClose(k) ==
    /\ sockets[k] \in {"connecting", "open", "closing"}
    /\ sockets' = [sockets EXCEPT ![k] = "closed"]
    /\ isConnected' = FALSE
    /\ linkEvt' = [ kind |-> "close", k |-> k ]
    /\ UNCHANGED <<socketRef, listVars, relayVars, wavVars>>

\* The 'error' event of socket k: its onerror handler.  The browser closes
\* the socket after an error and its 'close' event follows.
OnError(k) ==
    /\ sockets[k] \in {"connecting", "open"}
    /\ sockets' = [sockets EXCEPT ![k] = "closing"]
    /\ isConnected' = FALSE
    /\ linkEvt' = [ kind |-> "error", k |-> k ]
    /\ UNCHANGED <<socketRef, listVars, relayVars, wavVars>>

NextLink ==
    \/ HandleToggleConnection
    \/ \E k \in DOMAIN sockets : OnOpen(k)
    \/ \E k \in DOMAIN sockets : OnClose(k)
    \/ \E k \in DOMAIN sockets : OnError(k)

SpecLink == Init /\ [][NextLink]_vars

\* ========================================================= createWavHeader
\* Node's Buffer writes, at their width.  A length is a pair of 16-bit limbs,
\* value hi * 65536 + lo, so that lengths around 2^32 can be written down;
\* the other arguments are plain numbers.  A write gives ok FALSE when Node
\* throws a RangeError (the value is outside the field), and the bytes,
\* least significant first, otherwise.
MaxWavCalls == 2

ToLimbs(v) == [ hi |-> v \div 65536, lo |-> v % 65536 ]

AddLimbs(x, n) == [ hi |-> x.hi + ((x.lo + n) \div 65536), lo |-> (x.lo + n) % 65536 ]

Bytes16(v) == << v % 256, v \div 256 >>

Threw == [ ok |-> FALSE, bytes |-> <<>> ]

Wrote(bytes) == [ ok |-> TRUE, bytes |-> bytes ]

\* A plausible slip: a value beyond 32 bits is stored modulo 2^32.
WriteUInt32LEWraps(x) == Wrote(Bytes16(x.lo) \o Bytes16(x.hi % 65536))

\* header.writeUInt32LE(value, offset).
WriteUInt32LE(x) ==
    IF x.hi > 65535 THEN Threw ELSE Wrote(Bytes16(x.lo) \o Bytes16(x.hi))

\* header.writeUInt16LE(value, offset) for the value num / den: a value above
\* 65535 throws, a fraction is cut off.
WriteUInt16LE(num, den) ==
    IF num > 65535 * den THEN Threw ELSE Wrote(Bytes16(num \div den))

\* header.write('RIFF', 0) and the like: the ASCII codes of the four letters.
Ascii(tag) ==
    CASE tag = "RIFF" -> Wrote(<<82, 73, 70, 70>>)
      [] tag = "WAVE" -> Wrote(<<87, 65, 86, 69>>)
      [] tag = "fmt " -> Wrote(<<102, 109, 116, 32>>)
      [] tag = "data" -> Wrote(<<100, 97, 116, 97>>)

\* A plausible slip: the size of the whole file instead of the size after the
\* first eight bytes.
RiffChunkSizeWholeFile(pcmDataLength) == AddLimbs(pcmDataLength, 44)

\* riffChunkSize = pcmDataLength + 36.
RiffChunkSize(pcmDataLength) == AddLimbs(pcmDataLength, 36)

\* A plausible slip: the block align leaves out the channel count.
BlockAlignEighthsOneChannel(bitsPerSample, numChannels) == bitsPerSample

\* blockAlign = numChannels * (bitsPerSample / 8), in eighths of a byte.
BlockAlignEighths(bitsPerSample, numChannels) == numChannels * bitsPerSample

RECURSIVE Flatten(_)
Flatten(writes) ==
    IF writes = <<>> THEN <<>> ELSE Head(writes).bytes \o Flatten(Tail(writes))

\* createWavHeader: the writes in the order of the source, which between them
\* fill the 44 bytes of Buffer.alloc(44); the first write that throws ends the
\* call.  byteRate stays below 2^31 for the arguments drawn here.
createWavHeader(pcmDataLength, sampleRate, bitsPerSample, numChannels) ==
    LET blockAlign8 == BlockAlignEighths(bitsPerSample, numChannels)
        byteRate8 == sampleRate * blockAlign8
        writes == << Ascii("RIFF"),
                     WriteUInt32LE(RiffChunkSize(pcmDataLength)),
                     Ascii("WAVE"),
                     Ascii("fmt "),
                     WriteUInt32LE(ToLimbs(16)),
                     WriteUInt16LE(1, 1),
                     WriteUInt16LE(numChannels, 1),
                     WriteUInt32LE(ToLimbs(sampleRate)),
                     WriteUInt32LE(ToLimbs(byteRate8 \div 8)),
                     WriteUInt16LE(blockAlign8, 8),
                     WriteUInt16LE(bitsPerSample, 1),
                     Ascii("data"),
                     WriteUInt32LE(pcmDataLength) >>
    IN  IF \E i \in DOMAIN writes : ~writes[i].ok THEN Threw ELSE Wrote(Flatten(writes))

\* The arguments the calls are made with: lengths from 0 over 1,000,000
\* (15 * 65536 + 16960) to the first ones that no longer fit 32 bits.
WavLengths ==
    { [ hi |-> h, lo |-> l ] : h \in {0, 15, 65535, 65536}, l \in {0, 1, 16960, 65499, 65500, 65535} }

\* The usual formats, and one whose channel count is beyond its 16-bit field.
WavInputs ==
    { [ pcmDataLength |-> len, sampleRate |-> r, bitsPerSample |-> b, numChannels |-> n ] :
        len \in WavLengths, r \in {8000, 24000, 48000}, b \in {8, 12, 16}, n \in {1, 2} }
    \cup
    { [ pcmDataLength |-> len, sampleRate |-> 1, bitsPerSample |-> 16, numChannels |-> 65536 ] :
        len \in WavLengths }

InitWav ==
    /\ wavIn \in WavInputs
    /\ wavOut = <<>>
    /\ UiInit
    /\ RelayInit

\* One call of createWavHeader with the arguments of the run.
CallCreateWavHeader ==
    /\ Len(wavOut) < MaxWavCalls
    /\ wavOut' = Append(wavOut, createWavHeader(wavIn.pcmDataLength, wavIn.sampleRate,
                                                wavIn.bitsPerSample, wavIn.numChannels))
    /\ UNCHANGED <<wavIn, relayVars, uiVars>>

NextWav == CallCreateWavHeader

SpecWav == InitWav /\ [][NextWav]_vars

\* =================================================================== claims
\* A pipeline is alive while its subprocess runs or one of its streams is live.
Alive(pl) == pl.proc = "running" \/ pl.inS = "live" \/ pl.outS = "live"

\* A pipeline is torn down when its subprocess is over and both streams are too.
TornDown(pl) == ~Alive(pl)

AlivePipelines(c) == { p \in DOMAIN pipes[c] : Alive(pipes[c][p]) }

NoReferences(s) ==
    /\ s.ffmpegProcess = NoPipe
    /\ s.ffmpegInputStream = NoPipe
    /\ s.pcmOutputStream = NoPipe

\* C1: in every reachable state every connection has at most one alive
\* transcoding pipeline (subprocess or stream), whatever the interleaving of
\* audio messages, text messages and pipeline events; the pipeline the
\* clientState refers to is the newest one.
C1_AtMostOnePipelineAlive ==
    \A c \in Conns :
        /\ Cardinality(AlivePipelines(c)) <= 1
        /\ \A p \in AlivePipelines(c) : p = Len(pipes[c]) /\ cs[c].ffmpegProcess = p

\* C1 witness: a second audio message arrived while the first pipeline ran;
\* the first is killed and destroyed, the second is alive.
C1_Witness ==
    \E c \in Conns :
        /\ Len(pipes[c]) = 2
        /\ pipes[c][1].proc = "killed" /\ pipes[c][1].outS = "destroyed"
        /\ Alive(pipes[c][2])

\* C2 (as claimed): once a newer pipeline has started, no 'end' or 'error'
\* event of an older pipeline of the connection is handled any more.
C2_NoTerminalEventAfterPreemption ==
    (evt.kind \in {"ffmpegEnd", "ffmpegError"}) => evt.p = Len(pipes[evt.c])

\* The connection's part of the program has run to its end: the socket is
\* closed and ai.live.connect has settled.
Settled(c) == ws[c] = "closed" /\ connect[c] \in {"resolved", "rejected"}

\* The connection is destroyed: no entry in either map, and the AI session
\* is not open (session.close() was called, or it never opened or ended).
Destroyed(c) == ~hasState[c] /\ ~hasSess[c] /\ ai[c] \notin {"connecting", "open"}

\* C3 (as claimed): once the client socket has closed (and the connect attempt
\* has settled) the connection is destroyed: no state entry, no session entry,
\* no open AI session, also when the socket closed while connect was pending.
C3_ClosedSocketIsDestroyed == \A c \in Conns : Settled(c) => Destroyed(c)

CleanupKinds == {"wsClose", "wsError"}

\* C4: cleanupClient is idempotent.  session.close() is called at most once
\* per connection; a call removes both entries and leaves no reference to a
\* pipeline; a call that finds neither entry (the second of two in a row, or
\* one for an unknown socket) changes nothing.
C4_CleanupIdempotent ==
    /\ [](\A c \in Conns : closes[c] <= 1)
    /\ [][\A c \in Conns :
            (evt'.kind \in CleanupKinds /\ evt'.c = c) =>
                /\ ~hasState'[c] /\ ~hasSess'[c]
                /\ closes'[c] = closes[c] + (IF hasSess[c] THEN 1 ELSE 0)
                /\ hasState[c] => NoReferences(cs'[c])
                /\ (~hasState[c] /\ ~hasSess[c]) =>
                      (cs' = cs /\ pipes' = pipes /\ closes' = closes /\ ai' = ai
                       /\ closeLog' = closeLog /\ evt'.sent = <<>> /\ evt'.calls = <<>>)
       ]_vars

\* C4 witness: the 'close' handler runs cleanupClient after the 'error'
\* handler already did: it finds no session and session.close() ran once.
C4_Witness ==
    \E c \in Conns :
        /\ evt.kind = "wsClose" /\ evt.c = c /\ evt.calls = <<>>
        /\ closes[c] = 1 /\ ~hasSess[c] /\ ~hasState[c]
        /\ Len(pipes[c]) > 0

\* C5 (as claimed): after an AI-session onerror callback the connection ends
\* destroyed: once its socket is closed and connect has settled, no state
\* entry and no session are left.
C5_GeminiErrorDestroys ==
    \A c \in Conns :
        (CloseCall(c, "geminiError") \in closeLog /\ Settled(c)) => Destroyed(c)

\* C6: when ai.live.connect rejects, the state entry is removed, no session
\* entry is stored, no socket handler is installed, and the socket is closed
\* by the server with the rejection call.
C6_ConnectFailureTearsDown ==
    \A c \in Conns :
        connect[c] = "rejected" =>
            /\ ~hasState[c] /\ ~hasSess[c] /\ ~handlers[c]
            /\ ws[c] \in {"closing", "closed"}
            /\ CloseCall(c, "connectFail") \in closeLog

\* C6 witness: the connect was rejected while the client socket was open.
C6_Witness ==
    \E c \in Conns : evt.kind = "connectFailed" /\ evt.c = c /\ ws[c] = "closing"

\* C7 (as claimed): the close code of the connect-failure rejection differs
\* from the close code of every other server-initiated close.
C7_DistinctRejectionCode ==
    \A x, y \in closeLog :
        (x.site = "connectFail" /\ y.site # "connectFail") => x.code # y.code

\* C7 (amended): the connect-failure rejection uses close code 1011, the same
\* code as every other server-initiated close; it differs from them only in
\* its reason text, 'Backend connection error'.
C7_DistinctRejectionReason ==
    \A x, y \in closeLog :
        /\ x.code = CloseCodeInternal
        /\ x.site = "connectFail" => x.reason = "Backend connection error"
        /\ (x.site = "connectFail" /\ y.site # "connectFail") =>
              (x.code = y.code /\ x.reason # y.reason)

\* C7 witness: the server made the rejection call and another close call.
C7_Witness ==
    \E x, y \in closeLog : x.site = "connectFail" /\ y.site = "geminiError"

\* C8: a malformed client message changes nothing of the connection (the
\* clientState with its accumulator, flags and pipeline references, the
\* pipelines, both map entries, the session) and does not close the socket,
\* so the next message finds handlers, session and state as before.  (A
\* message for a socket whose entries are gone is not parsed at all; it
\* changes no connection state either and finds the socket no longer open.)
C8_MalformedChangesNothing ==
    [][\A c \in Conns :
          /\ (evt'.kind = "malformed" /\ evt'.c = c) =>
                /\ cs' = cs /\ pipes' = pipes
                /\ hasState' = hasState /\ hasSess' = hasSess
                /\ ai' = ai /\ closes' = closes
                /\ ws' = ws /\ closeLog' = closeLog
                /\ handlers'[c] /\ hasState'[c] /\ hasSess'[c]
                /\ evt'.calls = <<>>
          /\ (evt'.kind \in {"noSession", "noState"} /\ evt'.c = c) =>
                /\ cs' = cs /\ pipes' = pipes
                /\ hasState' = hasState /\ hasSess' = hasSess
                /\ ai' = ai /\ closes' = closes
                /\ ws' = ws /\ ws[c] # "open"
      ]_vars

\* C8 witness: a malformed message was handled while a pipeline was streaming
\* and AI audio was buffered, and all of it is still there.
C8_Witness ==
    \E c \in Conns :
        /\ evt.kind = "malformed" /\ evt.c = c
        /\ ws[c] = "open"
        /\ cs[c].ffmpegProcess # NoPipe /\ cs[c].isSendingAudioToGemini
        /\ Alive(pipes[c][cs[c].ffmpegProcess])
        /\ Len(cs[c].audioBuffer) > 0

\* C9 (as claimed): the failures of one pipeline reach the client as at most
\* one error event for that pipeline.
C9_OneErrorPerPipeline ==
    \A c \in Conns : \A p \in DOMAIN pipes[c] : pipes[c][p].errs <= 1

FailureKinds == {"ffmpegError", "pcmError", "chunkFailed"}

\* C10: after the handler of a pipeline failure the clientState holds no
\* pipeline handle and no stream reference, isSendingAudioToGemini is false
\* and the pipeline is torn down; a torn-down pipeline stays torn down and no
\* chunk of it is forwarded; the handler leaves the socket as it is; and an
\* audio message handled afterwards starts a new running pipeline that the
\* clientState refers to.
C10_FailureTearsDown ==
    /\ [](evt.kind \in FailureKinds =>
            /\ NoReferences(cs[evt.c])
            /\ ~cs[evt.c].isSendingAudioToGemini
            /\ TornDown(pipes[evt.c][evt.p]))
    /\ [][\A c \in Conns :
            /\ \A p \in DOMAIN pipes[c] :
                  TornDown(pipes[c][p]) =>
                      /\ TornDown(pipes'[c][p])
                      /\ ~(evt'.kind = "chunk" /\ evt'.c = c /\ evt'.p = p)
            /\ (evt'.kind \in FailureKinds /\ evt'.c = c) => ws' = ws
            /\ (evt'.kind = "audio" /\ evt'.c = c) =>
                  /\ Len(pipes'[c]) = Len(pipes[c]) + 1
                  /\ pipes'[c][Len(pipes'[c])] = NewPipeline
                  /\ cs'[c].ffmpegProcess = Len(pipes'[c])
                  /\ cs'[c].ffmpegInputStream = Len(pipes'[c])
                  /\ cs'[c].pcmOutputStream = Len(pipes'[c])
       ]_vars

\* C10 witness: the first pipeline failed with the socket open, and an audio
\* message after the failure started the second pipeline.
C10_Witness ==
    \E c \in Conns :
        /\ evt.kind = "audio" /\ evt.c = c /\ evt.p = 2
        /\ ws[c] = "open"
        /\ pipes[c][1].proc = "errored" /\ pipes[c][1].errs = 1
        /\ Alive(pipes[c][2])
\* C11: after handleTextMessage the connection has no pipeline: the
\* clientState holds no reference, isSendingAudioToGemini is false and no
\* pipeline of the connection is alive; and the handler made exactly one call
\* into the AI session, sendClientContent with the utterance and turnComplete
\* true.  The teardown is done also when that call throws, as it comes first.
C11_TextPreemptsThenSends ==
    evt.kind = "text" =>
        /\ NoReferences(cs[evt.c])
        /\ ~cs[evt.c].isSendingAudioToGemini
        /\ AlivePipelines(evt.c) = {}
        /\ Len(evt.calls) = 1
        /\ evt.calls[1].op = "sendClientContent"
        /\ evt.calls[1].arg = "utterance"

\* C11 witness: a text message arrived while a pipeline was streaming; the
\* pipeline is killed and destroyed and the utterance was sent.
C11_Witness ==
    /\ evt.kind = "text"
    /\ evt.calls = <<Call("sendClientContent", "utterance", TRUE)>>
    /\ Len(pipes[evt.c]) = 1
    /\ pipes[evt.c][1].proc = "killed" /\ pipes[evt.c][1].outS = "destroyed"

\* C12: sendRealtimeInput is called only for a pipeline that was started and
\* is the newest of its connection; a forwarded chunk belongs to the pipeline
\* the clientState refers to, whose output stream is live and whose subprocess
\* runs, so no chunk of a pipeline preempted by a text or audio message is
\* forwarded; a call that threw leaves the pipeline torn down.
C12_ChunksOnlyOfCurrentPipeline ==
    \A i \in DOMAIN evt.calls :
        evt.calls[i].op = "sendRealtimeInput" =>
            /\ evt.p \in DOMAIN pipes[evt.c]
            /\ evt.p = Len(pipes[evt.c])
            /\ evt.calls[i].ok =>
                  /\ cs[evt.c].pcmOutputStream = evt.p
                  /\ cs[evt.c].ffmpegProcess = evt.p
                  /\ pipes[evt.c][evt.p].outS = "live"
                  /\ pipes[evt.c][evt.p].proc = "running"
            /\ ~evt.calls[i].ok =>
                  /\ NoReferences(cs[evt.c])
                  /\ TornDown(pipes[evt.c][evt.p])

\* C12 witness: a chunk of the second pipeline was forwarded after the first
\* pipeline had been preempted.
C12_Witness ==
    /\ evt.kind = "chunk" /\ evt.p = 2
    /\ evt.calls = <<Call("sendRealtimeInput", "chunk", TRUE)>>
    /\ pipes[evt.c][1].proc = "killed" /\ pipes[evt.c][1].outS = "destroyed"

\* C13 (as claimed): on a connection in service the end-of-audio-turn marker
\* is sent once, for a pipeline that completed: the pipeline whose 'end' is
\* handled was neither preempted by a text or audio message nor failed, so
\* its streams ended and were never destroyed.
C13_EndMarkerOnlyOnCompletion ==
    (evt.kind = "ffmpegEnd" /\ hasState[evt.c]) =>
        /\ Len(evt.calls) = 1
        /\ evt.calls[1].op = "sendClientContent" /\ evt.calls[1].arg = "empty"
        /\ pipes[evt.c][evt.p].outS = "ended"
        /\ pipes[evt.c][evt.p].inS = "ended"

IsType(t, msg) == msg.type = t

Count(t, msgs) == Len(SelectSeq(msgs, LAMBDA msg : IsType(t, msg)))

\* C14 (as claimed): an AI turn-complete that finds audio fragments buffered
\* and carries no text makes the server send exactly one audio message and
\* then one turnComplete signal, and leaves the accumulator empty; no audio
\* message is sent before turn-complete.
C14_AudioTurnYieldsOneAudio ==
    [][\A c \in Conns :
          /\ (/\ evt'.kind = "geminiTurnComplete" /\ evt'.c = c
              /\ ws[c] = "open"
              /\ Len(cs[c].audioBuffer) > 0
              /\ Count("text", evt'.sent) = 0) =>
                /\ Len(evt'.sent) = 2
                /\ evt'.sent[1].type = "audio"
                /\ evt'.sent[2].type = "turnComplete"
                /\ cs'[c].audioBuffer = <<>>
          /\ (evt'.kind = "geminiMessage" /\ evt'.c = c) => Count("audio", evt'.sent) = 0
      ]_vars

\* C15: a turn-complete handled for a connection that has its state and an
\* open socket sends exactly one turnComplete signal, as the last message of
\* the handler, after the audio message or the error event when there is one;
\* nothing reaches a socket that is not open.
C15_AlwaysOneTurnComplete ==
    evt.kind = "geminiTurnComplete" =>
        IF ws[evt.c] = "open"
          THEN /\ Len(evt.sent) >= 1
               /\ evt.sent[Len(evt.sent)].type = "turnComplete"
               /\ Count("turnComplete", evt.sent) = 1
               /\ Count("audio", evt.sent) + Count("error", evt.sent) <= 1
          ELSE evt.sent = <<>>

\* C15 witness: encapsulating or sending the buffered audio failed; the error
\* event is followed by the turnComplete signal.
C15_Witness ==
    /\ evt.kind = "geminiTurnComplete"
    /\ Len(evt.sent) = 2
    /\ evt.sent[1].type = "error" /\ evt.sent[2].type = "turnComplete"

\* C16 (as claimed): after a turn-complete has been handled the accumulator
\* is empty and the recorded format is cleared.
C16_AccumulatorClearedAtTurnComplete ==
    evt.kind = "geminiTurnComplete" =>
        /\ cs[evt.c].audioBuffer = <<>>
        /\ cs[evt.c].mimeType = ""
BotMessages == SelectSeq(messages, IsBot)

\* C17: a turn whose server events were text fragments only, ended by the
\* turnComplete signal, adds exactly one assistant message to the page: a
\* text message whose content is the fragments in arrival order and whose
\* turnComplete flag is true; entries of the user in between change nothing.
C17_TextFragmentsMergeIntoOne ==
    (uiEvt = "turnComplete" /\ turn.done /\ turn.textOnly /\ turn.frags # <<>>) =>
        /\ Len(BotMessages) = turn.base + 1
        /\ BotMessages[Len(BotMessages)] = Entry("bot", "text", turn.frags, TRUE, FALSE)

\* C17 witness: after an earlier assistant turn, the fragments "Hel", "lo"
\* and the turnComplete signal arrived.
C17_Witness ==
    /\ uiEvt = "turnComplete" /\ turn.done /\ turn.textOnly
    /\ turn.frags = <<"Hel", "lo">>
    /\ turn.base = 1

\* C18 (as claimed): an audio event leaves no assistant message open (the
\* open text message is marked complete) and appends an audio message that
\* is complete; a text fragment that arrives after an audio message goes to a
\* text message that comes after that audio message.
C18_ModalitySwitchIsBoundary ==
    /\ uiEvt = "audio" =>
          /\ \A i \in DOMAIN messages : IsBot(messages[i]) => messages[i].turnComplete
          /\ messages[Len(messages)] = Entry("bot", "audio", <<"blob">>, TRUE, FALSE)
    /\ uiEvt = "text" =>
          \A i \in DOMAIN messages :
              (IsBot(messages[i]) /\ messages[i].type = "audio") =>
                  i < lastBotTextMessageIndex(messages)
\* The fields of a header, read back as Node's readUInt32LE / readUInt16LE
\* would: the byte at offset k of the buffer is bytes[k + 1].
Field32(bytes, off) ==
    [ hi |-> bytes[off + 3] + 256 * bytes[off + 4], lo |-> bytes[off + 1] + 256 * bytes[off + 2] ]

Field16(bytes, off) == bytes[off + 1] + 256 * bytes[off + 2]

Slice(bytes, off, n) == [ i \in 1..n |-> bytes[off + i] ]

SpeechFormat == wavIn.sampleRate = 24000 /\ wavIn.bitsPerSample = 16 /\ wavIn.numChannels = 1

\* L + 36 fits the 32-bit total-size field.
LengthFits == wavIn.pcmDataLength.hi + ((wavIn.pcmDataLength.lo + 36) \div 65536) <= 65535

\* The channel count, the bit depth and the block align fit their 16-bit
\* fields (sample rate and byte rate fit 32 bits for the arguments drawn).
FormatFits ==
    /\ wavIn.numChannels <= 65535
    /\ wavIn.bitsPerSample <= 65535
    /\ wavIn.numChannels * wavIn.bitsPerSample <= 65535 * 8

\* C19 (as claimed): createWavHeader(L, 24000, 16, 1) returns for every L a
\* header with total size L + 36, byte rate 48000, block align 2 and data
\* length L.
C19_HeaderFieldsForEveryLength ==
    \A k \in DOMAIN wavOut :
        SpeechFormat =>
            /\ wavOut[k].ok
            /\ Field32(wavOut[k].bytes, 4) = AddLimbs(wavIn.pcmDataLength, 36)
            /\ Field32(wavOut[k].bytes, 28) = ToLimbs(48000)
            /\ Field16(wavOut[k].bytes, 32) = 2
            /\ Field32(wavOut[k].bytes, 40) = wavIn.pcmDataLength

\* C19 (amended): createWavHeader(L, 24000, 16, 1) returns, for every L from
\* 0 to 2^32 - 37 (L = 0 and L = 1,000,000 among them), a header with total
\* size L + 36, byte rate 48000, block align 2 and data length L; for a
\* longer payload writeUInt32LE throws a RangeError and no header is returned.
C19_HeaderFieldsWhileLengthFits ==
    \A k \in DOMAIN wavOut :
        SpeechFormat =>
            IF LengthFits
              THEN /\ wavOut[k].ok
                   /\ Field32(wavOut[k].bytes, 4) = AddLimbs(wavIn.pcmDataLength, 36)
                   /\ Field32(wavOut[k].bytes, 28) = ToLimbs(48000)
                   /\ Field16(wavOut[k].bytes, 32) = 2
                   /\ Field32(wavOut[k].bytes, 40) = wavIn.pcmDataLength
              ELSE ~wavOut[k].ok

\* C19 witness: the header of a payload of 1,000,000 bytes was returned.
C19_Witness ==
    /\ SpeechFormat
    /\ wavIn.pcmDataLength = [ hi |-> 15, lo |-> 16960 ]
    /\ Len(wavOut) >= 1 /\ wavOut[1].ok

C21_NoWriteFails == \A k \in DOMAIN wavOut : wavOut[k].ok

\* C21 (amended): createWavHeader has an error condition: it returns a
\* header exactly when the total size, length + 36, is at most 2^32 - 1 and
\* channel count, bit depth and block align are at most 65535; otherwise a
\* write throws a RangeError.  No write wraps: a returned header holds the
\* total size and the length themselves, not their value modulo 2^32.
C21_WritesFailBeyondFieldWidth ==
    \A k \in DOMAIN wavOut :
        /\ wavOut[k].ok <=> (LengthFits /\ FormatFits)
        /\ wavOut[k].ok =>
              /\ Field32(wavOut[k].bytes, 40) = wavIn.pcmDataLength
              /\ Field32(wavOut[k].bytes, 4).lo = (wavIn.pcmDataLength.lo + 36) % 65536
              /\ Field32(wavOut[k].bytes, 4).hi >= wavIn.pcmDataLength.hi

\* C21 witness: the largest payload that fits got its header, total size
\* 2^32 - 1.
C21_Witness ==
    /\ wavIn.pcmDataLength = [ hi |-> 65535, lo |-> 65499 ]
    /\ FormatFits
    /\ Len(wavOut) >= 1 /\ wavOut[1].ok
    /\ Field32(wavOut[1].bytes, 4) = [ hi |-> 65535, lo |-> 65535 ]

\* C22: ai.live.connect is called once per accepted socket, when it is
\* accepted; a session is stored only by that call's success and is used for
\* no other socket; after a session error or close no new connect is under
\* way and no new session appears; session.close() is called at most once,
\* after which the socket has no session.
C22_OneSessionPerSocket ==
    \A c \in Conns :
        /\ (connect[c] = "none") <=> (ws[c] = "none")
        /\ closes[c] <= 1
        /\ hasSess[c] => (connect[c] = "resolved" /\ closes[c] = 0)
        /\ ai[c] \in {"open", "closing"} => connect[c] = "resolved"
        /\ connect[c] = "pending" => (closes[c] = 0 /\ ~hasSess[c])
        /\ (evt.kind = "connected" /\ evt.c = c) =>
              (closes[c] = 0 /\ CloseCall(c, "geminiError") \notin closeLog)

\* C22 witness: the session failed, the server closed the socket, the cleanup
\* called session.close() once, and no other session was created.
C22_Witness ==
    \E c \in Conns :
        /\ evt.kind = "wsClose" /\ evt.c = c
        /\ CloseCall(c, "geminiError") \in closeLog
        /\ closes[c] = 1 /\ ai[c] = "closed" /\ connect[c] = "resolved"

\* What the server holds for socket c: the socket, its connect call, its
\* handlers, its two map entries, its AI session and its pipelines.
ConnectionOf(c) ==
    <<ws[c], connect[c], handlers[c], hasState[c], cs[c], hasSess[c], ai[c], closes[c], pipes[c]>>

\* C23: a step taken for one socket (a client message, a pipeline event, an
\* AI callback, a close or an error of that socket) leaves everything the
\* server holds for every other socket as it was: socket, state entry,
\* pipelines and AI session; what the step sends goes to its own socket and
\* the ws.close calls it makes are on its own socket.
C23_ConnectionsAreIsolated ==
    [][\A c \in Conns :
          c # evt'.c =>
              /\ ConnectionOf(c)' = ConnectionOf(c)
              /\ heard'[c] = heard[c]
              /\ \A call \in closeLog' \ closeLog : call.c # c]_vars

\* C23 witness: a pipeline of socket 1 just delivered a chunk to its AI
\* session while socket 2 has a state entry, a session and a streaming
\* pipeline of its own.
C23_Witness ==
    /\ Conns = {1, 2}
    /\ evt.kind = "chunk" /\ evt.c = 1 /\ evt.calls # <<>>
    /\ hasState[2] /\ hasSess[2] /\ ws[2] = "open"
    /\ cs[2].isSendingAudioToGemini
    /\ cs[2].ffmpegProcess # NoPipe /\ Alive(pipes[2][cs[2].ffmpegProcess])

\* C23 witness of the teardown: socket 1 was cleaned up after its session
\* failed while socket 2 keeps its session and its streaming pipeline.
C23_TeardownBesideLiveSocket ==
    /\ Conns = {1, 2}
    /\ evt.kind = "wsClose" /\ evt.c = 1 /\ ~hasState[1]
    /\ hasState[2] /\ hasSess[2] /\ ws[2] = "open" /\ ai[2] = "open"
    /\ cs[2].isSendingAudioToGemini

\* The handlers that found no entry for their socket.
MissingEntryKinds == {"geminiNoState", "noSession", "noState"}

\* C24: a handler that finds no entry for its socket does nothing: an AI
\* message (fragment or turn-complete) after the state entry was deleted, and
\* a client message without session or state entry, send nothing to the
\* client, call nothing on the AI session, and leave the clientState, the
\* pipelines, both map entries, the session and the socket as they were (the
\* ws.close(1011) of the client-message case is made on a socket that is no
\* longer open).
C24_MissingEntryIsNoOp ==
    [][evt'.kind \in MissingEntryKinds =>
          /\ evt'.sent = <<>> /\ evt'.calls = <<>>
          /\ \A c \in Conns : ConnectionOf(c)' = ConnectionOf(c)
          /\ heard' = heard
          /\ ~hasState[evt'.c] \/ ~hasSess[evt'.c]
          /\ evt'.kind # "geminiNoState" => ws[evt'.c] # "open"]_vars

\* C24 witness: an AI message arrived for a socket whose state entry was
\* deleted while the session was still closing.
C24_Witness ==
    \E c \in Conns :
        /\ evt.kind = "geminiNoState" /\ evt.c = c
        /\ ~hasState[c] /\ ~hasSess[c] /\ ai[c] = "closing"

\* C24, the client side: a client message arrived after the cleanup removed
\* the session entry.
C24_ClientMessageWithoutSession ==
    \E c \in Conns : evt.kind = "noSession" /\ evt.c = c /\ ~hasSess[c] /\ handlers[c]

\* C25: every message delivered to a client has from gemini or backend and
\* type text, audio, turnComplete or error; text, audio and turnComplete come
\* from gemini only, error from backend only (with its text); an audio
\* message carries the encapsulated fragments together with the mimeType
\* audio/wav, and no other message carries a mimeType.
C25_MessageShapes ==
    \A i \in DOMAIN evt.sent :
        LET m == evt.sent[i]
        IN  /\ m.from \in {"gemini", "backend"}
            /\ m.type \in {"text", "audio", "turnComplete", "error"}
            /\ m.type \in {"text", "audio", "turnComplete"} => m.from = "gemini"
            /\ m.type = "error" => (m.from = "backend" /\ m.why # "")
            /\ m.type = "audio" => (m.why = "audio/wav" /\ Len(m.data) > 0)
            /\ m.type \in {"text", "turnComplete"} => m.why = ""

\* C25 witness: one AI message made the server send a text, the audio of the
\* turn and the turn-complete signal, and an error event was sent before on
\* the same socket.
C25_Witness ==
    \E c \in Conns :
        /\ evt.kind = "geminiTurnComplete" /\ evt.c = c
        /\ \E i, j, k \in DOMAIN evt.sent :
              /\ evt.sent[i].type = "text"
              /\ evt.sent[j].type = "audio"
              /\ evt.sent[k].type = "turnComplete"
        /\ \E p \in DOMAIN pipes[c] : pipes[c][p].errs > 0

\* C26 (as claimed): while the state entry exists, firstGeminiResponseReceived
\* is true exactly when a text or audio fragment was received since the last
\* turn-complete; so it is false after a turn-complete and after AI messages
\* that carried no fragment.
C26_FlagIffFragmentSinceTurnComplete ==
    \A c \in Conns :
        hasState[c] =>
            (cs[c].firstGeminiResponseReceived <=> (heard[c].any /\ ~heard[c].done))

\* The events of pipeline p that end it or stop the pipeline of the clientState.
PipelineEndKinds == {"ffmpegEnd", "ffmpegError", "pcmError", "chunkFailed", "chunkDropped"}

\* C27 (as claimed): on a connection in service isSendingAudioToGemini is
\* false after an audio message started a new turn; it becomes true only by
\* a forwarded chunk of the pipeline the clientState refers to, and is true
\* after every forwarded chunk; it becomes false again only when that
\* pipeline completes or fails or when a text or audio message preempts it.
C27_FlagFollowsCurrentPipeline ==
    [][\A c \in Conns :
          (hasState[c] /\ hasState'[c]) =>
              /\ (evt'.kind = "audio" /\ evt'.c = c) => ~cs'[c].isSendingAudioToGemini
              /\ (evt'.kind = "chunk" /\ evt'.c = c) => cs'[c].isSendingAudioToGemini
              /\ (~cs[c].isSendingAudioToGemini /\ cs'[c].isSendingAudioToGemini) =>
                    (evt'.kind = "chunk" /\ evt'.p = cs[c].ffmpegProcess)
              /\ (cs[c].isSendingAudioToGemini /\ ~cs'[c].isSendingAudioToGemini) =>
                    \/ evt'.kind \in {"text", "audio"}
                    \/ evt'.kind \in PipelineEndKinds /\ evt'.p = cs[c].ffmpegProcess]_vars

\* The format an audio part declares for its fragment.
FormatOfFragment(f) == MimeOf(CHOOSE k \in {"audioA", "audioB"} : Fragment(k) = f)

\* C28 (as claimed): while an AI turn is open and has audio fragments, the
\* recorded mimeType is the one of the turn's first audio fragment, and the
\* newest fragment is the last one in the accumulator.
C28_FormatOfFirstFragment ==
    \A c \in Conns :
        (hasState[c] /\ ~heard[c].done /\ heard[c].audio # <<>>) =>
            /\ cs[c].mimeType = FormatOfFragment(heard[c].audio[1])
            /\ Len(cs[c].audioBuffer) > 0 =>
                  cs[c].audioBuffer[Len(cs[c].audioBuffer)] = heard[c].audio[Len(heard[c].audio)]

\* C29 (as claimed): the 'error' or 'end' event of a pipeline that was
\* replaced by a newer one leaves the clientState (handles, flag) and the
\* newer pipeline as they were.
C29_LateEventLeavesReplacement ==
    [][\A c \in Conns :
          ( /\ evt'.c = c /\ evt'.kind \in {"ffmpegError", "ffmpegEnd"}
            /\ hasState[c]
            /\ cs[c].ffmpegProcess # NoPipe /\ evt'.p < cs[c].ffmpegProcess ) =>
              /\ cs'[c] = cs[c]
              /\ pipes'[c][cs[c].ffmpegProcess] = pipes[c][cs[c].ffmpegProcess]]_vars

\* C30 (as claimed): the audio message of a turn-complete carries the audio
\* fragments the AI sent since the previous turn-complete, all of them and in
\* arrival order, and one is sent whenever there were fragments, the socket
\* is open and the encapsulation did not fail.
C30_AudioIsAllFragmentsOfTurn ==
    (evt.kind = "geminiTurnComplete" /\ hasState[evt.c]) =>
        /\ \A i \in DOMAIN evt.sent :
              evt.sent[i].type = "audio" => evt.sent[i].data = heard[evt.c].audio
        /\ ( /\ heard[evt.c].audio # <<>> /\ ws[evt.c] = "open"
              /\ \A i \in DOMAIN evt.sent : evt.sent[i].type # "error" ) =>
              \E i \in DOMAIN evt.sent : evt.sent[i].type = "audio"

\* C31 (as claimed): every message a client sends on an accepted socket is
\* taken up by handleWebSocketMessage, also while ai.live.connect is pending;
\* none is dropped without a forward to the AI session or an error event.
C31_NoMessageLost ==
    \A c \in Conns :
        (evt.kind = "messageLost" /\ evt.c = c) => (evt.sent # <<>> \/ evt.calls # <<>>)

\* C32 (as claimed): the 'error' event of a command that was killed without
\* an error of its own (by the stopAudioProcessing of a text message or of a
\* newer audio message) sends nothing to the client.
C32_PreemptionSendsNoError ==
    [][\A c \in Conns :
          ( /\ evt'.c = c /\ evt'.kind = "ffmpegError"
            /\ pipes[c][evt'.p].proc = "killed" /\ pipes[c][evt'.p].errs = 0 ) =>
              evt'.sent = <<>>]_vars

\* C33 (as claimed): after the 'end' of a pipeline that completed by itself
\* (its streams ended, they were not destroyed) the clientState is what
\* stopAudioProcessing leaves: the three references are null and
\* isSendingAudioToGemini is false.
C33_CompletionLeavesNoPipeline ==
    \A c \in Conns :
        ( /\ evt.kind = "ffmpegEnd" /\ evt.c = c /\ hasState[c]
          /\ pipes[c][evt.p].outS = "ended" /\ pipes[c][evt.p].inS = "ended" ) =>
            /\ NoReferences(cs[c])
            /\ cs[c] = StoppedState(cs[c])

\* The assistant messages of the list that are open (turnComplete false).
OpenBotMessages == { i \in DOMAIN messages : IsBot(messages[i]) /\ ~messages[i].turnComplete }

\* C34 (as claimed): the message list has at most one open assistant message,
\* and an open one is the last assistant message of the list.
C34_OneOpenAssistantMessageAtEnd ==
    /\ Cardinality(OpenBotMessages) <= 1
    /\ \A i \in OpenBotMessages : i = lastBotMessageIndex(messages)

\* C35: whenever isSendingAudioToGemini is true the connection has its state
\* entry and an active pipeline: the pipeline handle and the output stream
\* reference are set, they name the newest pipeline, and its output stream
\* is live.
C35_SendingOnlyWithPipeline ==
    \A c \in Conns :
        cs[c].isSendingAudioToGemini =>
            /\ hasState[c]
            /\ cs[c].ffmpegProcess # NoPipe /\ cs[c].pcmOutputStream # NoPipe
            /\ cs[c].ffmpegProcess = Len(pipes[c]) /\ cs[c].pcmOutputStream = Len(pipes[c])
            /\ pipes[c][cs[c].pcmOutputStream].outS = "live"

\* C35 witness: the second pipeline of a connection, started while the first
\* one ran, just forwarded a chunk.
C35_Witness ==
    \E c \in Conns :
        /\ evt.kind = "chunk" /\ evt.c = c /\ evt.p = 2
        /\ cs[c].isSendingAudioToGemini
        /\ pipes[c][1].proc = "killed"

\* C36: a raw chunk that becomes ready while the client socket is not open
\* is not forwarded (no call on the AI session), nothing is sent to the
\* client, and the pipeline is torn down: its subprocess is killed, its
\* streams are destroyed, the clientState holds no reference and is not
\* sending.
C36_ChunkOnClosedSocketStopsPipeline ==
    \A c \in Conns :
        (evt.kind = "chunkDropped" /\ evt.c = c) =>
            /\ ws[c] # "open"
            /\ evt.calls = <<>> /\ evt.sent = <<>>
            /\ TornDown(pipes[c][evt.p])
            /\ pipes[c][evt.p].outS = "destroyed"
            /\ AlivePipelines(c) = {}
            /\ NoReferences(cs[c]) /\ ~cs[c].isSendingAudioToGemini

\* C36 witness: the server closed the socket after an AI session error while
\* a pipeline was streaming; its next chunk found the socket closing.
C36_Witness ==
    \E c \in Conns :
        /\ evt.kind = "chunkDropped" /\ evt.c = c
        /\ ws[c] = "closing" /\ hasState[c]
        /\ CloseCall(c, "geminiError") \in closeLog
        /\ pipes[c][evt.p].proc = "killed"

C38_ConnectedIffRefIsOpen ==
    /\ isConnected => (socketRef # 0 /\ sockets[socketRef] = "open")
    /\ ( /\ linkEvt.kind \in {"close", "error"} /\ linkEvt.k # socketRef
          /\ socketRef # 0 /\ sockets[socketRef] = "open" ) => isConnected
====
